---- MODULE Spec2Model ----
(***************************************************************************)
(* Model of streamlit_app.py: one Streamlit session of the sales           *)
(* dashboard.  A session is a sequence of script runs; each run executes   *)
(* the script top to bottom (load, widgets, filter, metrics, tabs) and a   *)
(* user interaction changes one widget value and starts the next run.      *)
(*                                                                         *)
(* A DataFrame is a sequence of rows; every row keeps the index label      *)
(* (idx) it got from read_csv, as pandas does through boolean indexing     *)
(* and sort_values.  Timestamps are integers counted in ticks, a calendar  *)
(* day being TicksPerDay ticks.  A float is a record [kind, num, den]:      *)
(* kind "num" for the quotient num/den (den > 0), or one of "nan", "inf",  *)
(* "-inf", which numpy's float division and the statistics of an empty     *)
(* column produce.  A formatted float is a record [kind, v] with the       *)
(* printed digits in v.                                                    *)
(***************************************************************************)
EXTENDS Integers, Sequences, FiniteSets, TLC

\* ---------------------------------------------------------------- bounds
MaxRows == 3            \* longest CSV file the session is started with
MaxRollRows == 5        \* longest file in the sessions that exercise the rolling mean
MaxWindowChecked == 4   \* largest slider position explored besides the default
TicksPerDay == 2        \* resolution of a timestamp within one day

\* ------------------------------------------------------- program constants
WindowMin == 3
WindowMax == 30
WindowDefault == 7

\* ------------------------------------------------------------ input data
\* Cells of a CSV file as read_csv delivers them: the date is still text,
\* modelled as <<day, tick within the day>>, or the text "bad" that
\* pd.to_datetime cannot parse (modelled as <<0, 0>> with ok = FALSE).
CsvRow(day, tod, c, r, s, p) ==
    [day |-> day, tod |-> tod, ok |-> TRUE,
     category |-> c, region |-> r, sales |-> s, profit |-> p]

PoolRows ==
    { CsvRow(1, 0, "A", "East", 100, 10),
      CsvRow(3, 0, "B", "West", 50, -5),
      CsvRow(2, 1, "B", "East", 0, 5) }

BadRow == [day |-> 0, tod |-> 0, ok |-> FALSE,
           category |-> "A", region |-> "East", sales |-> 100, profit |-> 10]

Range(s) == { s[i] : i \in 1..Len(s) }

SeqsUpTo(S, n) == UNION { [1..k -> S] : k \in 1..n }

\* Files a user can upload: every non-empty file of at most MaxRows pool
\* rows, and one file whose date column does not parse.
Files == SeqsUpTo(PoolRows, MaxRows) \cup { <<BadRow>> }

\* The bundled sample_data.csv, when it is present next to the script.
SampleFile ==
    << CsvRow(1, 0, "A", "East", 100, 10),
       CsvRow(2, 0, "A", "East", 200, 20),
       CsvRow(3, 0, "B", "West", 50, -5) >>

NoFile == << >>

\* Files of the sessions that exercise the rolling mean: longer, over the
\* rows of the sample, in any order and with repeated dates.
RollFiles == SeqsUpTo(Range(SampleFile), MaxRollRows)

\* --------------------------------------------------------------- helpers
RECURSIVE SumSeq(_)
SumSeq(s) == IF s = << >> THEN 0 ELSE Head(s) + SumSeq(Tail(s))

Column(rows, name) ==
    [i \in 1..Len(rows) |->
        CASE name = "sales"  -> rows[i].sales
          [] name = "profit" -> rows[i].profit
          [] name = "date"   -> rows[i].date]

SetMin(S) == CHOOSE x \in S : \A y \in S : x <= y
SetMax(S) == CHOOSE x \in S : \A y \in S : x >= y

Abs(n) == IF n < 0 THEN -n ELSE n

\* ----------------------------------------------------------------- state
VARIABLES
    uploaded_file,      \* rows of the uploaded CSV, NoFile when none
    sample_present,     \* sample_data.csv exists in the working directory
    ss_date_range,      \* session state of the date_input widget
    ss_categories,      \* session state of the category multiselect
    ss_regions,         \* session state of the region multiselect
    ss_checkbox,        \* session state of the moving-average checkbox
    ss_window,          \* session state of the window slider
    ss_rendered,        \* the filter widgets have been rendered once
    pc,                 \* position of the current run in the script
    error_shown,        \* st.error was called in this run
    df,                 \* the loaded DataFrame
    date_range,         \* value returned by st.sidebar.date_input
    categories,         \* value returned by the category multiselect
    regions,            \* value returned by the region multiselect
    filtered_df,        \* df[mask]
    metrics,            \* the four st.metric cards
    filtered_df_sorted, \* the sorted copy with the moving_avg column
    group_tables,       \* category_sales, category_profit, region_data
    corr_matrix,        \* filtered_df[['sales','profit']].corr()
    table,              \* rows handed to st.dataframe in tab4
    csv                 \* text handed to st.download_button

sessionVars == <<uploaded_file, sample_present, ss_date_range, ss_categories,
                 ss_regions, ss_checkbox, ss_window, ss_rendered>>
runVars == <<pc, error_shown, df, date_range, categories, regions,
             filtered_df, metrics, filtered_df_sorted, group_tables,
             corr_matrix, table, csv>>
vars == <<sessionVars, runVars>>

\* A DataFrame: the column labels and the rows.
Frame(cols, rows) == [columns |-> cols, rows |-> rows]
NoFrame == Frame(<< >>, << >>)
BaseColumns == <<"date", "category", "region", "sales", "profit">>

NoMetrics == [rendered |-> FALSE]
NoTables == [rendered |-> FALSE]
NoCorr == [rendered |-> FALSE]
NoCsv == [header |-> << >>, lines |-> << >>]

\* ------------------------------------------------------------ data loading
\* SelectSource without the st.stop of line 37: the run goes on with the
\* sample rows.
SelectSourceNoStop(uploaded, present) ==
    IF uploaded # NoFile THEN [found |-> TRUE, cells |-> uploaded]
    ELSE [found |-> TRUE, cells |-> SampleFile]

\* Lines 28-37: the uploaded file wins; otherwise sample_data.csv is read,
\* and FileNotFoundError is turned into st.error + st.stop.
SelectSource(uploaded, present) ==
    IF uploaded # NoFile THEN [found |-> TRUE, cells |-> uploaded]
    ELSE IF present THEN [found |-> TRUE, cells |-> SampleFile]
    ELSE [found |-> FALSE, cells |-> NoFile]

\* pd.to_datetime on one cell of the date column.
ToDatetimeCell(cell) == cell.day * TicksPerDay + cell.tod

\* pd.to_datetime on a datetime.date returned by the date_input widget.
ToDatetimeDate(day) == day * TicksPerDay

\* Timestamp -> datetime.date, as date_input does with its value and limits.
DateOf(ts) == ts \div TicksPerDay

\* Line 40 raises when a cell of the column cannot be parsed.
DateColumnParses(cells) == \A i \in 1..Len(cells) : cells[i].ok

\* pd.read_csv followed by line 40: rows get the RangeIndex labels and a
\* Timestamp in the date column.
ParsedRows(cells) ==
    [i \in 1..Len(cells) |->
        [idx |-> i, date |-> ToDatetimeCell(cells[i]),
         category |-> cells[i].category, region |-> cells[i].region,
         sales |-> cells[i].sales, profit |-> cells[i].profit]]

\* ----------------------------------------------------------------- widgets
Unique(rows, field) ==
    IF field = "category" THEN { rows[i].category : i \in 1..Len(rows) }
    ELSE { rows[i].region : i \in 1..Len(rows) }

MinDay(rows) == DateOf(SetMin(Range(Column(rows, "date"))))
MaxDay(rows) == DateOf(SetMax(Range(Column(rows, "date"))))

\* value=(df['date'].min(), df['date'].max()) of the date_input.
DateInputDefault(rows) == << MinDay(rows), MaxDay(rows) >>

\* What a user can leave in the date_input: a complete range inside
\* [min_value, max_value], or only its first date while the second one has
\* not been picked yet.
DateInputChoices(rows) ==
    LET days == MinDay(rows)..MaxDay(rows) IN
      { dr \in days \X days : dr[1] <= dr[2] } \cup { <<a>> : a \in days }

\* Positions of the slider st.slider(..., 3, 30, 7) that are explored.
SliderChoices ==
    { w \in WindowMin..WindowMax : w <= MaxWindowChecked } \cup { WindowDefault }

\* --------------------------------------------------------------- filtering
\* MaskRange without the upper date bound.
MaskRangeOpenEnd(row, dr, cats, regs) ==
    /\ row.date >= ToDatetimeDate(dr[1])
    /\ row.category \in cats
    /\ row.region \in regs

\* MaskRange in which an empty selection matches every value.
MaskRangeEmptyMeansAll(row, dr, cats, regs) ==
    /\ row.date >= ToDatetimeDate(dr[1])
    /\ row.date <= ToDatetimeDate(dr[2])
    /\ (cats = {} \/ row.category \in cats)
    /\ (regs = {} \/ row.region \in regs)

\* Lines 69-74: the mask of the branch with a complete date range.
MaskRange(row, dr, cats, regs) ==
    /\ row.date >= ToDatetimeDate(dr[1])
    /\ row.date <= ToDatetimeDate(dr[2])
    /\ row.category \in cats
    /\ row.region \in regs

\* Lines 77-80: the mask of the else branch.
MaskElse(row, cats, regs) ==
    /\ row.category \in cats
    /\ row.region \in regs

\* FilterRows in which a single date is used as the lower bound.
FilterRowsStartBound(rows, dr, cats, regs) ==
    IF Len(dr) = 2
    THEN LET keep(row) == MaskRange(row, dr, cats, regs) IN SelectSeq(rows, keep)
    ELSE LET keep(row) == /\ MaskElse(row, cats, regs)
                          /\ Len(dr) = 1 => row.date >= ToDatetimeDate(dr[1])
         IN  SelectSeq(rows, keep)

\* Lines 68-80: boolean indexing keeps the selected rows in their order.
FilterRows(rows, dr, cats, regs) ==
    IF Len(dr) = 2
    THEN LET keep(row) == MaskRange(row, dr, cats, regs) IN SelectSeq(rows, keep)
    ELSE LET keep(row) == MaskElse(row, cats, regs) IN SelectSeq(rows, keep)

\* ------------------------------------------------------------------- Init
RunStart ==
    /\ pc = "start"
    /\ error_shown = FALSE
    /\ df = NoFrame
    /\ date_range = << >>
    /\ categories = {}
    /\ regions = {}
    /\ filtered_df = NoFrame
    /\ metrics = NoMetrics
    /\ filtered_df_sorted = NoFrame
    /\ group_tables = NoTables
    /\ corr_matrix = NoCorr
    /\ table = NoFrame
    /\ csv = NoCsv

Init ==
    /\ uploaded_file \in { NoFile } \cup Files
    /\ sample_present \in BOOLEAN
    /\ ss_rendered = FALSE
    /\ ss_date_range = << >>
    /\ ss_categories = {}
    /\ ss_regions = {}
    /\ ss_checkbox = FALSE
    /\ ss_window = WindowDefault
    /\ RunStart

\* ---------------------------------------------------------------- actions
\* Lines 28-40 with a source that exists and parses.
Load ==
    /\ pc = "start"
    /\ LET src == SelectSource(uploaded_file, sample_present) IN
         /\ src.found
         /\ DateColumnParses(src.cells)
         /\ df' = Frame(BaseColumns, ParsedRows(src.cells))
    /\ pc' = "loaded"
    /\ UNCHANGED <<sessionVars, error_shown, date_range, categories, regions,
                   filtered_df, metrics, filtered_df_sorted, group_tables,
                   corr_matrix, table, csv>>

\* Lines 35-37: no upload and no sample_data.csv.
LoadMissing ==
    /\ pc = "start"
    /\ ~ SelectSource(uploaded_file, sample_present).found
    /\ error_shown' = TRUE
    /\ pc' = "stopped"
    /\ UNCHANGED <<sessionVars, df, date_range, categories, regions,
                   filtered_df, metrics, filtered_df_sorted, group_tables,
                   corr_matrix, table, csv>>

\* Line 40 raises: the run ends with the exception.
LoadUnparseable ==
    /\ pc = "start"
    /\ LET src == SelectSource(uploaded_file, sample_present) IN
         /\ src.found
         /\ ~ DateColumnParses(src.cells)
    /\ pc' = "raised"
    /\ UNCHANGED <<sessionVars, error_shown, df, date_range, categories,
                   regions, filtered_df, metrics, filtered_df_sorted,
                   group_tables, corr_matrix, table, csv>>

\* ReadWidgets in which the widgets keep returning their defaults.
ReadWidgetsDefaultsOnly ==
    /\ pc = "loaded"
    /\ date_range' = DateInputDefault(df.rows)
    /\ categories' = Unique(df.rows, "category")
    /\ regions' = Unique(df.rows, "region")
    /\ ss_date_range' = IF ss_rendered THEN ss_date_range ELSE date_range'
    /\ ss_categories' = IF ss_rendered THEN ss_categories ELSE categories'
    /\ ss_regions' = IF ss_rendered THEN ss_regions ELSE regions'
    /\ ss_rendered' = TRUE
    /\ pc' = "widgets"
    /\ UNCHANGED <<uploaded_file, sample_present, ss_checkbox, ss_window,
                   error_shown, df, filtered_df, metrics, filtered_df_sorted,
                   group_tables, corr_matrix, table, csv>>

\* Lines 46-65: a widget rendered for the first time returns its default and
\* registers it in the session; afterwards it returns the session's value.
ReadWidgets ==
    /\ pc = "loaded"
    /\ date_range' = IF ss_rendered THEN ss_date_range ELSE DateInputDefault(df.rows)
    /\ categories' = IF ss_rendered THEN ss_categories ELSE Unique(df.rows, "category")
    /\ regions' = IF ss_rendered THEN ss_regions ELSE Unique(df.rows, "region")
    /\ ss_date_range' = date_range'
    /\ ss_categories' = categories'
    /\ ss_regions' = regions'
    /\ ss_rendered' = TRUE
    /\ pc' = "widgets"
    /\ UNCHANGED <<uploaded_file, sample_present, ss_checkbox, ss_window,
                   error_shown, df, filtered_df, metrics, filtered_df_sorted,
                   group_tables, corr_matrix, table, csv>>

\* Lines 68-80.
Filter ==
    /\ pc = "widgets"
    /\ filtered_df' = Frame(df.columns,
                            FilterRows(df.rows, date_range, categories, regions))
    /\ pc' = "filtered"
    /\ UNCHANGED <<sessionVars, error_shown, df, date_range, categories,
                   regions, metrics, filtered_df_sorted, group_tables,
                   corr_matrix, table, csv>>

\* -------------------------------------------------------------- arithmetic
Float(n, d) == [kind |-> "num", num |-> n, den |-> d]
NaN == [kind |-> "nan", num |-> 0, den |-> 1]
PosInf == [kind |-> "inf", num |-> 0, den |-> 1]
NegInf == [kind |-> "-inf", num |-> 0, den |-> 1]

\* numpy.int64 / numpy.int64 (line 109): float division, which does not
\* raise on a zero divisor but yields inf, -inf or nan.
TrueDivide(a, b) ==
    IF b = 0
    THEN IF a > 0 THEN PosInf ELSE IF a < 0 THEN NegInf ELSE NaN
    ELSE IF b > 0 THEN Float(a, b) ELSE Float(-a, -b)

\* float * int; inf and nan are absorbing for a positive factor.
Times(x, k) == IF x.kind = "num" THEN Float(x.num * k, x.den) ELSE x

\* n/d rounded to the nearest integer, ties to even (d > 0).
RoundHalfEven(n, d) ==
    LET q == n \div d
        r == n % d
    IN  IF 2 * r < d THEN q
    ELSE IF 2 * r > d THEN q + 1
    ELSE IF q % 2 = 0 THEN q ELSE q + 1

Pow10(k) == IF k = 0 THEN 1 ELSE IF k = 1 THEN 10 ELSE 100

\* format(x, ".<digits>f"): v holds the printed number in units of
\* 10^-digits; nan and inf print as "nan", "inf", "-inf".
FormatFixed(x, digits) ==
    IF x.kind = "num"
    THEN [kind |-> "num", v |-> RoundHalfEven(x.num * Pow10(digits), x.den)]
    ELSE [kind |-> x.kind, v |-> 0]

\* Least k >= from with 4 * n < (2k+1)^2 * d, i.e. sqrt(n/d) rounded.
RECURSIVE RoundSqrtFrom(_, _, _)
RoundSqrtFrom(n, d, from) ==
    IF 4 * n < (2 * from + 1) * (2 * from + 1) * d THEN from
    ELSE RoundSqrtFrom(n, d, from + 1)

\* format(sqrt(x), ".0f") for a variance x >= 0.
FormatRootFixed0(x) ==
    IF x.kind = "num"
    THEN [kind |-> "num", v |-> RoundSqrtFrom(x.num, x.den, 0)]
    ELSE [kind |-> x.kind, v |-> 0]

\* format(n, ","): the sign and the groups of three digits, most
\* significant group first.
RECURSIVE Groups(_)
Groups(n) == IF n < 1000 THEN <<n>> ELSE Append(Groups(n \div 1000), n % 1000)

FormatGrouped(n) == [neg |-> n < 0, groups |-> Groups(Abs(n))]

\* ------------------------------------------------------ column statistics
\* Series.sum(): 0 for an empty column.
ColSum(col) == SumSeq(col)

\* Series.mean(): nan for an empty column.
ColMean(col) ==
    IF Len(col) = 0 THEN NaN ELSE TrueDivide(ColSum(col), Len(col))

SumSq(col) == SumSeq([i \in 1..Len(col) |-> col[i] * col[i]])

\* Series.var() with ddof = 1: nan for fewer than two values.
ColVar(col) ==
    IF Len(col) <= 1 THEN NaN
    ELSE Float(Len(col) * SumSq(col) - ColSum(col) * ColSum(col),
               Len(col) * (Len(col) - 1))

\* ---------------------------------------------------------------- metrics
\* Lines 85-90.
MetricTotalSales(rows) ==
    [value |-> FormatGrouped(ColSum(Column(rows, "sales"))),
     delta |-> Len(rows)]

\* Lines 92-97.
MetricMeanSales(rows) ==
    [value |-> FormatFixed(ColMean(Column(rows, "sales")), 0),
     delta |-> FormatRootFixed0(ColVar(Column(rows, "sales")))]

\* Lines 99-104.
MetricTotalProfit(rows) ==
    [value |-> FormatGrouped(ColSum(Column(rows, "profit"))),
     delta |-> FormatFixed(ColMean(Column(rows, "profit")), 0)]

\* MetricProfitRate without the factor 100.
MetricProfitRateFraction(rows) ==
    [value |-> FormatFixed(
                 TrueDivide(ColSum(Column(rows, "profit")),
                            ColSum(Column(rows, "sales"))), 1)]

\* Lines 106-110.
MetricProfitRate(rows) ==
    [value |-> FormatFixed(
                 Times(TrueDivide(ColSum(Column(rows, "profit")),
                                  ColSum(Column(rows, "sales"))), 100), 1)]

\* Lines 83-110.
Metrics ==
    /\ pc = "filtered"
    /\ metrics' = [rendered |-> TRUE,
                   total_sales |-> MetricTotalSales(filtered_df.rows),
                   mean_sales |-> MetricMeanSales(filtered_df.rows),
                   total_profit |-> MetricTotalProfit(filtered_df.rows),
                   profit_rate |-> MetricProfitRate(filtered_df.rows)]
    /\ pc' = "metrics"
    /\ UNCHANGED <<sessionVars, error_shown, df, date_range, categories,
                   regions, filtered_df, filtered_df_sorted, group_tables,
                   corr_matrix, table, csv>>

\* ----------------------------------------------------------- tab1: rolling
\* DataFrame.sort_values('date') returns a new frame.  Its default sort is
\* not stable, so rows with equal dates may come out in any order: every
\* arrangement in nondecreasing date order is a possible result.
RECURSIVE Arrangements(_, _)
Arrangements(rows, left) ==
    IF left = {} THEN { << >> }
    ELSE LET first == SetMin({ rows[i].date : i \in left })
             heads == { i \in left : rows[i].date = first }
         IN  UNION { { <<rows[i]>> \o rest :
                         rest \in Arrangements(rows, left \ {i}) } : i \in heads }

SortValues(rows) == Arrangements(rows, 1..Len(rows))

\* Series.rolling(window=w).mean(): min_periods defaults to the window; the
\* window sum is maintained by adding the entering value and removing the
\* leaving one.
RECURSIVE RollFrom(_, _, _, _, _, _)
RollFrom(col, w, minp, i, sum, nobs) ==
    IF i > Len(col) THEN << >>
    ELSE LET leaving == i > w
             sum2 == sum + col[i] - (IF leaving THEN col[i - w] ELSE 0)
             nobs2 == nobs + 1 - (IF leaving THEN 1 ELSE 0)
             out == IF nobs2 >= minp THEN TrueDivide(sum2, nobs2) ELSE NaN
         IN  <<out>> \o RollFrom(col, w, minp, i + 1, sum2, nobs2)

\* RollingMean with min_periods=1: a mean over the rows seen so far.
RollingMeanTruncated(col, w) == RollFrom(col, w, 1, 1, 0, 0)

RollingMean(col, w) == RollFrom(col, w, w, 1, 0, 0)

\* Line 135: the new column is aligned on the index of the sorted frame.
WithMovingAvg(rows, avg) ==
    [i \in 1..Len(rows) |->
        [idx |-> rows[i].idx, date |-> rows[i].date,
         category |-> rows[i].category, region |-> rows[i].region,
         sales |-> rows[i].sales, profit |-> rows[i].profit,
         moving_avg |-> avg[i]]]

\* Line 132 with the checkbox unchecked.
Tab1Plain ==
    /\ pc = "metrics"
    /\ ~ ss_checkbox
    /\ pc' = "tab1"
    /\ UNCHANGED <<sessionVars, error_shown, df, date_range, categories,
                   regions, filtered_df, metrics, filtered_df_sorted,
                   group_tables, corr_matrix, table, csv>>

\* Tab1MovingAvg with sort_values(inplace=True) and the column added to
\* filtered_df itself.
Tab1MovingAvgInPlace ==
    /\ pc = "metrics"
    /\ ss_checkbox
    /\ \E sorted \in SortValues(filtered_df.rows) :
         filtered_df' =
            Frame(filtered_df.columns \o <<"moving_avg">>,
                  WithMovingAvg(sorted,
                                RollingMean(Column(sorted, "sales"), ss_window)))
    /\ filtered_df_sorted' = filtered_df'
    /\ pc' = "tab1"
    /\ UNCHANGED <<sessionVars, error_shown, df, date_range, categories,
                   regions, metrics, group_tables, corr_matrix, table, csv>>

\* Lines 132-153 with the checkbox checked.
Tab1MovingAvg ==
    /\ pc = "metrics"
    /\ ss_checkbox
    /\ \E sorted \in SortValues(filtered_df.rows) :
         filtered_df_sorted' =
            Frame(filtered_df.columns \o <<"moving_avg">>,
                  WithMovingAvg(sorted,
                                RollingMean(Column(sorted, "sales"), ss_window)))
    /\ pc' = "tab1"
    /\ UNCHANGED <<sessionVars, error_shown, df, date_range, categories,
                   regions, filtered_df, metrics, group_tables, corr_matrix,
                   table, csv>>

\* ------------------------------------------------------ tab2, tab3: groups
RowsWhere(rows, field, key) ==
    LET keep(row) == IF field = "category" THEN row.category = key
                     ELSE row.region = key
    IN  SelectSeq(rows, keep)

\* Line 162: one entry per category present in the filtered rows.
CategorySales(rows) ==
    [c \in Unique(rows, "category") |->
        ColSum(Column(RowsWhere(rows, "category", c), "sales"))]

\* Lines 175-179.
CategoryProfit(rows) ==
    [c \in Unique(rows, "category") |->
        LET g == RowsWhere(rows, "category", c)
            s == ColSum(Column(g, "sales"))
            p == ColSum(Column(g, "profit"))
        IN  [sales |-> s, profit |-> p,
             profit_rate |-> Times(TrueDivide(p, s), 100)]]

\* DataFrame.round(2) on a float cell: the value in hundredths.
Round2(x) ==
    IF x.kind = "num"
    THEN [kind |-> "num", v |-> RoundHalfEven(x.num * 100, x.den)]
    ELSE [kind |-> x.kind, v |-> 0]

\* Lines 193-196.
RegionData(rows) ==
    [r \in Unique(rows, "region") |->
        LET g == RowsWhere(rows, "region", r)
        IN  [sales_sum |-> ColSum(Column(g, "sales")),
             sales_mean |-> Round2(ColMean(Column(g, "sales"))),
             profit_sum |-> ColSum(Column(g, "profit")),
             profit_mean |-> Round2(ColMean(Column(g, "profit")))]]

\* Lines 155-210.
Tab2Tab3 ==
    /\ pc = "tab1"
    /\ group_tables' = [rendered |-> TRUE,
                        category_sales |-> CategorySales(filtered_df.rows),
                        category_profit |-> CategoryProfit(filtered_df.rows),
                        region_data |-> RegionData(filtered_df.rows)]
    /\ pc' = "tab3"
    /\ UNCHANGED <<sessionVars, error_shown, df, date_range, categories,
                   regions, filtered_df, metrics, filtered_df_sorted,
                   corr_matrix, table, csv>>

\* --------------------------------------------------- tab4: detail, export
\* One cell of DataFrame.corr(): cov / sqrt(varx * vary), kept as the three
\* moments; nan when a variance is zero (fewer than two rows included).
Pearson(x, y) ==
    LET n == Len(x)
        sxy == SumSeq([i \in 1..n |-> x[i] * y[i]])
        cov == n * sxy - ColSum(x) * ColSum(y)
        vx == n * SumSq(x) - ColSum(x) * ColSum(x)
        vy == n * SumSq(y) - ColSum(y) * ColSum(y)
    IN  IF vx = 0 \/ vy = 0 THEN [kind |-> "nan", cov |-> 0, vx |-> 0, vy |-> 0]
        ELSE [kind |-> "num", cov |-> cov, vx |-> vx, vy |-> vy]

\* Line 217.
CorrMatrix(rows) ==
    LET s == Column(rows, "sales")
        p == Column(rows, "profit")
    IN  [rendered |-> TRUE,
         sales_sales |-> Pearson(s, s), sales_profit |-> Pearson(s, p),
         profit_sales |-> Pearson(p, s), profit_profit |-> Pearson(p, p)]

\* to_csv writes a Timestamp back as text.
FormatTimestamp(ts) == [day |-> ts \div TicksPerDay, tod |-> ts % TicksPerDay]

\* Line 231: to_csv(index=False) writes the header and one line per row,
\* with the cells in column order.
ToCsv(frame) ==
    [header |-> frame.columns,
     lines |-> [i \in 1..Len(frame.rows) |->
                  [date |-> FormatTimestamp(frame.rows[i].date),
                   category |-> frame.rows[i].category,
                   region |-> frame.rows[i].region,
                   sales |-> frame.rows[i].sales,
                   profit |-> frame.rows[i].profit]]]

\* Lines 212-241.
Tab4 ==
    /\ pc = "tab3"
    /\ corr_matrix' = CorrMatrix(filtered_df.rows)
    /\ table' = filtered_df
    /\ csv' = ToCsv(filtered_df)
    /\ pc' = "done"
    /\ UNCHANGED <<sessionVars, error_shown, df, date_range, categories,
                   regions, filtered_df, metrics, filtered_df_sorted,
                   group_tables>>

\* ------------------------------------------------------- user interactions
\* A widget change ends the run's output and starts the script again from
\* its first line; no script variable survives.
Rerun ==
    /\ pc' = "start"
    /\ error_shown' = FALSE
    /\ df' = NoFrame
    /\ date_range' = << >>
    /\ categories' = {}
    /\ regions' = {}
    /\ filtered_df' = NoFrame
    /\ metrics' = NoMetrics
    /\ filtered_df_sorted' = NoFrame
    /\ group_tables' = NoTables
    /\ corr_matrix' = NoCorr
    /\ table' = NoFrame
    /\ csv' = NoCsv

SetDateRange ==
    /\ pc = "done"
    /\ \E dr \in DateInputChoices(df.rows) :
         /\ dr # ss_date_range
         /\ ss_date_range' = dr
    /\ Rerun
    /\ UNCHANGED <<uploaded_file, sample_present, ss_categories, ss_regions,
                   ss_checkbox, ss_window, ss_rendered>>

SetCategories ==
    /\ pc = "done"
    /\ \E sel \in SUBSET Unique(df.rows, "category") :
         /\ sel # ss_categories
         /\ ss_categories' = sel
    /\ Rerun
    /\ UNCHANGED <<uploaded_file, sample_present, ss_date_range, ss_regions,
                   ss_checkbox, ss_window, ss_rendered>>

SetRegions ==
    /\ pc = "done"
    /\ \E sel \in SUBSET Unique(df.rows, "region") :
         /\ sel # ss_regions
         /\ ss_regions' = sel
    /\ Rerun
    /\ UNCHANGED <<uploaded_file, sample_present, ss_date_range, ss_categories,
                   ss_checkbox, ss_window, ss_rendered>>

\* The slider exists only while the checkbox is checked; a slider that was
\* not rendered in a run starts again from its default.
ToggleCheckbox ==
    /\ pc = "done"
    /\ ss_checkbox' = ~ ss_checkbox
    /\ ss_window' = WindowDefault
    /\ Rerun
    /\ UNCHANGED <<uploaded_file, sample_present, ss_date_range, ss_categories,
                   ss_regions, ss_rendered>>

SetWindow ==
    /\ pc = "done"
    /\ ss_checkbox
    /\ \E w \in SliderChoices :
         /\ w # ss_window
         /\ ss_window' = w
    /\ Rerun
    /\ UNCHANGED <<uploaded_file, sample_present, ss_date_range, ss_categories,
                   ss_regions, ss_checkbox, ss_rendered>>

\* ---------------------------------------------------------- specification
Next ==
    \/ Load
    \/ LoadMissing
    \/ LoadUnparseable
    \/ ReadWidgets
    \/ Filter
    \/ Metrics
    \/ Tab1Plain
    \/ Tab1MovingAvg
    \/ Tab2Tab3
    \/ Tab4
    \/ SetDateRange
    \/ SetCategories
    \/ SetRegions
    \/ ToggleCheckbox
    \/ SetWindow

Spec == Init /\ [][Next]_vars

\* Sessions in which the filter widgets are left at their defaults and the
\* user only works with the moving-average checkbox and its slider.
InitRolling ==
    /\ uploaded_file \in RollFiles
    /\ sample_present = FALSE
    /\ ss_rendered = FALSE
    /\ ss_date_range = << >>
    /\ ss_categories = {}
    /\ ss_regions = {}
    /\ ss_checkbox = FALSE
    /\ ss_window = WindowDefault
    /\ RunStart

NextRolling ==
    \/ Load
    \/ ReadWidgets
    \/ Filter
    \/ Metrics
    \/ Tab1Plain
    \/ Tab1MovingAvg
    \/ Tab2Tab3
    \/ Tab4
    \/ ToggleCheckbox
    \/ SetWindow

SpecRolling == InitRolling /\ [][NextRolling]_vars

TypeOK ==
    /\ pc \in {"start", "loaded", "widgets", "filtered", "metrics", "tab1",
               "tab3", "done", "stopped", "raised"}
    /\ Len(date_range) \in 0..2

\* ------------------------------------------------------------- properties
\* The run has executed lines 68-80.
AfterFilter == pc \in {"filtered", "metrics", "tab1", "tab3", "done"}

\* The run has executed lines 83-110.
AfterMetrics == pc \in {"metrics", "tab1", "tab3", "done"}

\* The run has executed lines 117-153.
AfterTab1 == pc \in {"tab1", "tab3", "done"}

\* The rows of the view are rows of the loaded frame, each at most once and
\* in the order of the loaded frame.
IsSubframe(view, full) ==
    /\ \A k \in 1..Len(view) :
          /\ view[k].idx \in 1..Len(full)
          /\ full[view[k].idx] = view[k]
    /\ \A k \in 1..(Len(view) - 1) : view[k].idx < view[k + 1].idx

InDates(row, start, end) ==
    /\ row.date >= start * TicksPerDay
    /\ row.date <= end * TicksPerDay

InSelection(row, cats, regs) == row.category \in cats /\ row.region \in regs

\* Index labels of the loaded rows that pass the criteria dr, cats, regs.
Passing(full, dr, cats, regs) ==
    { i \in 1..Len(full) :
        /\ InSelection(full[i], cats, regs)
        /\ Len(dr) = 2 => InDates(full[i], dr[1], dr[2]) }

\* The view holds exactly the rows with the labels in keep.
HoldsExactly(view, full, keep) ==
    /\ IsSubframe(view, full)
    /\ { view[k].idx : k \in 1..Len(view) } = keep

RECURSIVE SumOver(_, _, _)
SumOver(full, keep, name) ==
    IF keep = {} THEN 0
    ELSE LET i == CHOOSE j \in keep : TRUE
         IN  (IF name = "sales" THEN full[i].sales ELSE full[i].profit)
               + SumOver(full, keep \ {i}, name)

\* The number a grouped format denotes.
RECURSIVE GroupsValue(_)
GroupsValue(g) ==
    IF Len(g) = 0 THEN 0
    ELSE 1000 * GroupsValue(SubSeq(g, 1, Len(g) - 1)) + g[Len(g)]

GroupedValue(f) == IF f.neg THEN - GroupsValue(f.groups) ELSE GroupsValue(f.groups)

\* C1: with a two-bound date range the filtered view contains only rows of
\* the loaded dataset, and every row in it has date >= start, date <= end,
\* category in the selected categories and region in the selected regions.
C1_FilteredSatisfiesConjunction ==
    (AfterFilter /\ Len(date_range) = 2) =>
        /\ IsSubframe(filtered_df.rows, df.rows)
        /\ \A k \in 1..Len(filtered_df.rows) :
              /\ InDates(filtered_df.rows[k], date_range[1], date_range[2])
              /\ InSelection(filtered_df.rows[k], categories, regions)

\* A two-bound run that keeps a row, drops a row for its date alone and
\* drops a row for its category alone.
C1_Witness ==
    /\ pc = "filtered"
    /\ Len(date_range) = 2
    /\ filtered_df.rows # << >>
    /\ \E i \in 1..Len(df.rows) :
          /\ InSelection(df.rows[i], categories, regions)
          /\ ~ InDates(df.rows[i], date_range[1], date_range[2])
    /\ \E i \in 1..Len(df.rows) :
          /\ InDates(df.rows[i], date_range[1], date_range[2])
          /\ df.rows[i].region \in regions
          /\ df.rows[i].category \notin categories

\* C2: when total sales of the filtered view is 0 the profit-rate card is
\* not a division result: it is never inf, -inf or nan.
C2_ProfitRateGuarded ==
    (AfterMetrics /\ ColSum(Column(filtered_df.rows, "sales")) = 0) =>
        metrics.profit_rate.value.kind \notin {"inf", "-inf", "nan"}

\* C3: an empty category selection or an empty region selection gives an
\* empty filtered view, with a complete date range and without one.
C3_EmptySelectionEmptyView ==
    (AfterFilter /\ (categories = {} \/ regions = {})) =>
        filtered_df.rows = << >>

\* A two-bound run over the full date range with every region selected, in
\* which only the empty category selection can empty the view.
C3_Witness ==
    /\ pc = "filtered"
    /\ categories = {}
    /\ regions = Unique(df.rows, "region")
    /\ date_range = DateInputDefault(df.rows)
    /\ Len(df.rows) >= 2
    /\ \A i \in 1..Len(df.rows) :
          InDates(df.rows[i], date_range[1], date_range[2])

\* C4: with a date range that does not have two bounds the run does not
\* fail and the view is exactly the rows whose category and region are
\* selected, whatever their date.
C4_FallbackIgnoresDates ==
    Len(date_range) # 2 =>
        /\ pc = "widgets" => ENABLED Filter
        /\ AfterFilter =>
             HoldsExactly(filtered_df.rows, df.rows,
                          { i \in 1..Len(df.rows) :
                               InSelection(df.rows[i], categories, regions) })

\* A one-bound run that keeps a row dated before the single bound and drops
\* a row for its category.
C4_Witness ==
    /\ pc = "filtered"
    /\ Len(date_range) = 1
    /\ \E k \in 1..Len(filtered_df.rows) :
          filtered_df.rows[k].date < date_range[1] * TicksPerDay
    /\ \E i \in 1..Len(df.rows) : df.rows[i].category \notin categories

\* C5: the moving_avg column over the N filtered rows sorted by date
\* ascending is undefined at the first W-1 positions (at all N positions
\* when N < W) and from position W on it is the arithmetic mean of the W
\* sales values ending at that position.
C5_RollingAverage ==
    (AfterTab1 /\ ss_checkbox) =>
        LET rows == filtered_df_sorted.rows
            n == Len(rows)
            w == ss_window
        IN  /\ n = Len(filtered_df.rows)
            /\ { rows[k].idx : k \in 1..n }
                 = { filtered_df.rows[k].idx : k \in 1..n }
            /\ \A k \in 1..n :
                  /\ rows[k].sales = df.rows[rows[k].idx].sales
                  /\ rows[k].date = df.rows[rows[k].idx].date
            /\ \A k \in 1..(n - 1) : rows[k].date <= rows[k + 1].date
            /\ \A i \in 1..n :
                  IF i < w THEN rows[i].moving_avg.kind = "nan"
                  ELSE /\ rows[i].moving_avg.kind = "num"
                       /\ rows[i].moving_avg.num * w
                            = rows[i].moving_avg.den
                                * SumSeq([j \in 1..w |-> rows[i - w + j].sales])

\* More rows than the window, given out of date order, with a value leaving
\* the window that differs from the one entering it.
C5_Witness ==
    /\ pc = "tab1"
    /\ ss_checkbox
    /\ Len(filtered_df_sorted.rows) > ss_window
    /\ \E k \in 1..(Len(filtered_df.rows) - 1) :
          filtered_df.rows[k].date > filtered_df.rows[k + 1].date
    /\ filtered_df_sorted.rows[1].sales
         # filtered_df_sorted.rows[ss_window + 1].sales

\* C6: when total sales of the rows passing the filter is not zero, the
\* cards show the sum of sales and the sum of profit over exactly those
\* rows, their number, and total profit / total sales x 100 to one decimal.
C6_TotalsAndRate ==
    LET keep == Passing(df.rows, date_range, categories, regions)
        s == SumOver(df.rows, keep, "sales")
        p == SumOver(df.rows, keep, "profit")
    IN  (AfterMetrics /\ s # 0) =>
            /\ GroupedValue(metrics.total_sales.value) = s
            /\ metrics.total_sales.delta = Cardinality(keep)
            /\ GroupedValue(metrics.total_profit.value) = p
            /\ metrics.profit_rate.value.kind = "num"
            /\ 2 * Abs(metrics.profit_rate.value.v * s - 1000 * p) <= Abs(s)

\* The scenario of the specification: three rows, range day 1 to day 2,
\* category A, region East: 2 rows, sales 300, profit 30, rate 10.0%.
C6_Witness ==
    /\ pc = "metrics"
    /\ Len(df.rows) = 3
    /\ [i \in 1..3 |-> df.rows[i].sales] = <<100, 200, 50>>
    /\ [i \in 1..3 |-> df.rows[i].profit] = <<10, 20, -5>>
    /\ date_range = <<1, 2>>
    /\ categories = {"A"}
    /\ regions = {"East"}
    /\ metrics.total_sales.value.groups = <<300>>
    /\ metrics.total_sales.delta = 2
    /\ metrics.total_profit.value.groups = <<30>>
    /\ metrics.profit_rate.value.v = 100

\* C7: with no uploaded file and no sample_data.csv the run shows the error
\* and stops; it reads no filter widget, computes no filtered view and
\* renders no metric.
C7_SourceMissingHalts ==
    (uploaded_file = NoFile /\ ~ sample_present) =>
        /\ pc \in {"start", "stopped"}
        /\ pc = "stopped" => error_shown
        /\ ~ ss_rendered
        /\ date_range = << >>
        /\ filtered_df = NoFrame
        /\ ~ metrics.rendered

C7_Witness ==
    /\ uploaded_file = NoFile
    /\ ~ sample_present
    /\ pc = "stopped"
    /\ error_shown

\* C8: over a filtered view with no rows the cards for mean sales, mean
\* profit and profit rate show neither 0 nor nan.
C8_EmptyResultFlagged ==
    (AfterMetrics /\ filtered_df.rows = << >>) =>
        \A shown \in { metrics.mean_sales.value, metrics.total_profit.delta,
                       metrics.profit_rate.value } :
            /\ shown.kind # "nan"
            /\ ~ (shown.kind = "num" /\ shown.v = 0)

\* The rows of the loaded frame are all the rows of the session's source.
IsWholeSource(full) ==
    LET cells == IF uploaded_file # NoFile THEN uploaded_file ELSE SampleFile
    IN  /\ Len(full) = Len(cells)
        /\ \A i \in 1..Len(full) :
              /\ full[i].idx = i
              /\ full[i].date = cells[i].day * TicksPerDay + cells[i].tod
              /\ full[i].category = cells[i].category
              /\ full[i].region = cells[i].region
              /\ full[i].sales = cells[i].sales
              /\ full[i].profit = cells[i].profit

\* C9: after any sequence of interactions the filtered view is the filter
\* applied to the whole loaded dataset under the criteria the widgets hold
\* now.
C9_ViewFromCurrentCriteria ==
    AfterFilter =>
        /\ IsWholeSource(df.rows)
        /\ HoldsExactly(filtered_df.rows, df.rows,
                        Passing(df.rows, ss_date_range, ss_categories, ss_regions))

\* A run after the user has changed the date range, both selections and the
\* checkbox, whose view keeps some rows and drops others.
C9_Witness ==
    /\ pc = "done"
    /\ ss_checkbox
    /\ ss_date_range # DateInputDefault(df.rows)
    /\ ss_categories # Unique(df.rows, "category")
    /\ ss_regions # Unique(df.rows, "region")
    /\ filtered_df.rows # << >>
    /\ Len(filtered_df.rows) < Len(df.rows)

\* C10: whether or not the moving average was computed, the detail table
\* and the CSV export hold the filtered rows in the order of the loaded
\* dataset, with the columns of the loaded dataset.
C10_RollingLeavesViewUnchanged ==
    pc = "done" =>
        /\ table.columns = BaseColumns
        /\ HoldsExactly(table.rows, df.rows,
                        Passing(df.rows, date_range, categories, regions))
        /\ csv.header = BaseColumns
        /\ Len(csv.lines) = Len(table.rows)
        /\ \A k \in 1..Len(csv.lines) :
              LET row == df.rows[table.rows[k].idx]
                  line == csv.lines[k]
              IN  /\ line.date.day * TicksPerDay + line.date.tod = row.date
                  /\ line.category = row.category
                  /\ line.region = row.region
                  /\ line.sales = row.sales
                  /\ line.profit = row.profit

\* A run with the moving average on whose view is not in date order and
\* has rows with equal dates.
C10_Witness ==
    /\ pc = "done"
    /\ ss_checkbox
    /\ filtered_df_sorted.rows # << >>
    /\ \E k \in 1..(Len(table.rows) - 1) :
          table.rows[k].date > table.rows[k + 1].date
====
